---- MODULE Spec2Model ----
(***************************************************************************)
(* Streaming response ingestion of the chat front-end.                     *)
(*                                                                         *)
(* Two generations of the code are modelled side by side; `variant` says   *)
(* which one a behaviour runs:                                             *)
(*   "v9": StreamingService of src/unnamed/part_009 with the ChatService   *)
(*         of src/src/app/app.config.ts (stop-token filter, cancelStream,  *)
(*         generated files);                                               *)
(*   "v8": StreamingService of src/unnamed/part_008 (lines 465-692) with   *)
(*         the ChatService of src/src/app/services/chat.service.ts.        *)
(* Text is a sequence of one-character strings.  An optional value is a    *)
(* sequence of length 0 (undefined / null) or 1.                           *)
(***************************************************************************)
EXTENDS Integers, Sequences, FiniteSets, TLC

\* ------------------------------------------------------------------ bounds
MaxSessions == 2
MaxLines == 2
MaxEventLines == 3
MaxRecreate == 1
MaxPieces == 4
MaxTokenLines == 3
MaxQuietLines == 3
MaxClockLines == 3
MaxTicks == 2
MaxLoadLines == 2

Variants == {"v9", "v8"}

\* ------------------------------------------------------------------- text
Whitespace == {" ", "\n", "\r", "\t"}

WordChars ==
  {"a","b","c","d","e","f","g","h","i","j","k","l","m","n","o","p","q","r",
   "s","t","u","v","w","x","y","z","A","B","C","D","E","F","G","H","I","J",
   "K","L","M","N","O","P","Q","R","S","T","U","V","W","X","Y","Z",
   "0","1","2","3","4","5","6","7","8","9","_"}

Drop(s, n) == SubSeq(s, n + 1, Len(s))

startsWith(s, p) == Len(s) >= Len(p) /\ SubSeq(s, 1, Len(p)) = p

RECURSIVE trimStart(_)
trimStart(s) ==
  IF s # <<>> /\ Head(s) \in Whitespace THEN trimStart(Tail(s)) ELSE s

RECURSIVE trimEnd(_)
trimEnd(s) ==
  IF s # <<>> /\ s[Len(s)] \in Whitespace
  THEN trimEnd(SubSeq(s, 1, Len(s) - 1)) ELSE s

trim(s) == trimEnd(trimStart(s))

RECURSIVE Concat(_)
Concat(ss) == IF ss = <<>> THEN <<>> ELSE Head(ss) \o Concat(Tail(ss))

\* s.split(sep): the pieces between the non-overlapping occurrences of sep,
\* scanned left to right; `cur` is the piece being collected.
RECURSIVE splitFrom(_, _, _)
splitFrom(s, sep, cur) ==
  IF s = <<>> THEN <<cur>>
  ELSE IF startsWith(s, sep)
       THEN <<cur>> \o splitFrom(Drop(s, Len(sep)), sep, <<>>)
       ELSE splitFrom(Tail(s), sep, Append(cur, Head(s)))

split(s, sep) == splitFrom(s, sep, <<>>)

\* result.split(stop).join('')
removeAll(s, stop) == Concat(split(s, stop))

\* --------------------------------------------------------------- sanitizer
STOP_TOKENS ==
  << <<"<","|","i","m","_","e","n","d","|",">">>,
     <<"<","|","e","n","d","o","f","t","e","x","t","|",">">>,
     <<"<","|","i","m","_","s","t","a","r","t","|",">">>,
     <<"<","/","s",">">>,
     <<"<","s",">">>,
     <<"[","P","A","D","]">>,
     <<"<","p","a","d",">">>,
     <<"<","e","o","s",">">>,
     <<"<","|","e","n","d","|",">">> >>

IsStopToken(s) == \E i \in 1..Len(STOP_TOKENS) : STOP_TOKENS[i] = s

\* for (const stop of STOP_TOKENS) result = result.split(stop).join('')
RECURSIVE removeStopsFrom(_, _)
removeStopsFrom(s, i) ==
  IF i > Len(STOP_TOKENS) THEN s
  ELSE removeStopsFrom(removeAll(s, STOP_TOKENS[i]), i + 1)

removeStopTokens(s) == removeStopsFrom(s, 1)

\* faulty variant: no test of the whole token
cleanToken_noWholeTest(token) == removeStopTokens(token)

cleanToken(token) ==
  IF IsStopToken(trim(token)) THEN <<>> ELSE removeStopTokens(token)

LanguageMarkers ==
  << <<"z","h">>, <<"e","n">>, <<"e","l">>, <<"t","h","i","n","k">>,
     <<"n","o","_","t","h","i","n","k">> >>

\* /\/(zh|en|el|think|no_think)\b/ anchored at the head of s: the length of
\* the match, 0 when there is none.  \b after a word character holds at the
\* end of the text or before a non-word character.
markerAt(s) ==
  IF s = <<>> \/ Head(s) # "/" THEN 0
  ELSE LET r == Tail(s)
           hits == {i \in 1..Len(LanguageMarkers) :
                      /\ startsWith(r, LanguageMarkers[i])
                      /\ \/ Len(r) = Len(LanguageMarkers[i])
                         \/ r[Len(LanguageMarkers[i]) + 1] \notin WordChars}
       IN IF hits = {} THEN 0
          ELSE 1 + Len(LanguageMarkers[CHOOSE i \in hits : \A j \in hits : i <= j])

RECURSIVE removeLanguageMarkers(_)
removeLanguageMarkers(s) ==
  IF s = <<>> THEN <<>>
  ELSE IF markerAt(s) > 0 THEN removeLanguageMarkers(Drop(s, markerAt(s)))
       ELSE <<Head(s)>> \o removeLanguageMarkers(Tail(s))

\* /<\|[^|]+\|>/ anchored at the head of s: the length of the match or 0.
RECURSIVE barAt(_, _)
barAt(s, i) == IF i > Len(s) THEN 0 ELSE IF s[i] = "|" THEN i ELSE barAt(s, i + 1)

tagAt(s) ==
  IF ~startsWith(s, <<"<","|">>) THEN 0
  ELSE LET b == barAt(s, 3)
       IN IF b > 3 /\ b < Len(s) /\ s[b + 1] = ">" THEN b + 1 ELSE 0

RECURSIVE removeSpecialTags(_)
removeSpecialTags(s) ==
  IF s = <<>> THEN <<>>
  ELSE IF tagAt(s) > 0 THEN removeSpecialTags(Drop(s, tagAt(s)))
       ELSE <<Head(s)>> \o removeSpecialTags(Tail(s))

\* /\n{3,}/g -> '\n\n'
RECURSIVE newlineRun(_)
newlineRun(s) == IF s # <<>> /\ Head(s) = "\n" THEN 1 + newlineRun(Tail(s)) ELSE 0

RECURSIVE collapseNewlines(_)
collapseNewlines(s) ==
  IF s = <<>> THEN <<>>
  ELSE IF newlineRun(s) >= 3
       THEN <<"\n","\n">> \o collapseNewlines(Drop(s, newlineRun(s)))
       ELSE <<Head(s)>> \o collapseNewlines(Tail(s))

cleanFinalResponse(content) ==
  trim(collapseNewlines(removeSpecialTags(removeLanguageMarkers(
         removeStopTokens(content)))))

\* ------------------------------------------------------------ wire format
\* A frame is the line "data: " + JSON + "\n".  The JSON object
\* {"type": T, "data": D} is written here in a compact notation: "{", one
\* letter for T, the characters of D, "}".  Anything else is not JSON.
DataPrefix == <<"d","a","t","a",":"," ">>

TypeOf ==
  [c \in {"s","t","e","r","k","R","f","D","E","h","S","y"} |->
     CASE c = "s" -> "thinking_start"
       [] c = "t" -> "thinking_token"
       [] c = "e" -> "thinking_end"
       [] c = "r" -> "response_start"
       [] c = "k" -> "token"
       [] c = "R" -> "response_end"
       [] c = "f" -> "file_generated"
       [] c = "D" -> "done"
       [] c = "E" -> "error"
       [] c = "h" -> "heartbeat"
       [] c = "S" -> "status"
       [] c = "y" -> "file_ready"]

\* JSON.parse(jsonStr): <<event>>, or <<>> when it throws.
JSONparse(jsonStr) ==
  IF /\ Len(jsonStr) >= 3
     /\ jsonStr[1] = "{"
     /\ jsonStr[Len(jsonStr)] = "}"
     /\ jsonStr[2] \in DOMAIN TypeOf
  THEN << [type |-> TypeOf[jsonStr[2]],
           data |-> SubSeq(jsonStr, 3, Len(jsonStr) - 1)] >>
  ELSE <<>>

\* JSON.parse(event.data) of a file_generated event: the GeneratedFileInfo is
\* written "(" + file_id + ")"; <<>> when it throws.
parseFileInfo(data) ==
  IF Len(data) >= 3 /\ data[1] = "(" /\ data[Len(data)] = ")"
  THEN << [file_id |-> SubSeq(data, 2, Len(data) - 1)] >>
  ELSE <<>>

Frame(c, data) == DataPrefix \o <<"{", c>> \o data \o <<"}", "\n">>

\* Math.round(ms / 1000) for ms >= 0
roundSeconds(ms) == (ms + 500) \div 1000

\* ------------------------------------------- ChatService (app.config.ts), v9
\* A message carries `sid`, the session whose call created the object (0 for
\* none); it stands for the object's identity and no code reads it.
Last(msgs) == msgs[Len(msgs)]

SetLast(msgs, m) == [msgs EXCEPT ![Len(msgs)] = m]

addUserMessage(msgs, content, t, sid) ==
  Append(msgs, [role |-> "user", content |-> content, timestamp |-> t,
                isStreaming |-> FALSE, thinking |-> <<>>,
                thinkingExpanded |-> FALSE, thinkingInProgress |-> FALSE,
                thinkingDuration |-> <<>>, generatedFile |-> <<>>,
                sid |-> sid])

createStreamingMessage(msgs, t, sid) ==
  Append(msgs, [role |-> "assistant", content |-> <<>>, timestamp |-> t,
                isStreaming |-> TRUE, thinking |-> <<>>,
                thinkingExpanded |-> TRUE, thinkingInProgress |-> FALSE,
                thinkingDuration |-> <<>>, generatedFile |-> <<>>,
                sid |-> sid])

\* faulty variant: the append does not test isStreaming
appendToStreamingMessage_unguarded(msgs, token) ==
  IF msgs # <<>>
  THEN SetLast(msgs, [Last(msgs) EXCEPT !.content = @ \o token])
  ELSE msgs

appendToStreamingMessage_v9(msgs, token) ==
  IF msgs # <<>> /\ Last(msgs).isStreaming
  THEN SetLast(msgs, [Last(msgs) EXCEPT !.content = @ \o token])
  ELSE msgs

updateStreamingThinking_v9(msgs, inProgress) ==
  IF msgs # <<>> /\ Last(msgs).isStreaming
  THEN SetLast(msgs, [Last(msgs) EXCEPT !.thinkingInProgress = inProgress,
                                        !.thinkingExpanded = TRUE])
  ELSE msgs

appendToStreamingThinking_v9(msgs, token) ==
  IF msgs # <<>> /\ Last(msgs).isStreaming
  THEN SetLast(msgs, [Last(msgs) EXCEPT !.thinking = @ \o token])
  ELSE msgs

finalizeStreamingThinking(msgs, fullThinking, duration) ==
  IF msgs # <<>> /\ Last(msgs).isStreaming
  THEN SetLast(msgs, [Last(msgs) EXCEPT !.thinking = fullThinking,
                                        !.thinkingDuration = <<duration>>,
                                        !.thinkingInProgress = FALSE,
                                        !.thinkingExpanded = FALSE])
  ELSE msgs

\* cleanedContent is <<text>>, or <<>> for undefined
finalizeStreamingMessage_v9(msgs, cleanedContent) ==
  IF msgs # <<>> /\ Last(msgs).isStreaming
  THEN SetLast(msgs, [Last(msgs) EXCEPT
         !.isStreaming = FALSE,
         !.content = IF cleanedContent # <<>> THEN cleanedContent[1] ELSE @])
  ELSE msgs

attachGeneratedFile(msgs, fileInfo) ==
  IF msgs # <<>> /\ Last(msgs).role = "assistant"
  THEN SetLast(msgs, [Last(msgs) EXCEPT !.generatedFile = <<fileInfo>>])
  ELSE msgs

removeStreamingMessage_v9(msgs) ==
  IF Len(msgs) > 0 /\ Last(msgs).isStreaming
  THEN SubSeq(msgs, 1, Len(msgs) - 1)
  ELSE msgs

\* <<message>>, or <<>> for null
getCurrentStreamingMessage(msgs) ==
  IF msgs # <<>> /\ Last(msgs).isStreaming THEN <<Last(msgs)>> ELSE <<>>

\* ------------------------------------- ChatService (chat.service.ts), v8
startStreamingMessage(msgs, t, sid) ==
  Append(msgs, [role |-> "assistant", content |-> <<>>, timestamp |-> t,
                isStreaming |-> TRUE, thinking |-> <<>>,
                thinkingExpanded |-> FALSE, thinkingInProgress |-> FALSE,
                thinkingDuration |-> <<>>, generatedFile |-> <<>>,
                sid |-> sid])

appendToStreamingMessage_v8(msgs, token) ==
  IF msgs # <<>> /\ Last(msgs).isStreaming
  THEN SetLast(msgs, [Last(msgs) EXCEPT !.content = @ \o token])
  ELSE msgs

appendToStreamingThinking_v8(msgs, token) ==
  IF msgs # <<>> /\ Last(msgs).isStreaming
  THEN SetLast(msgs, [Last(msgs) EXCEPT !.thinking = @ \o token])
  ELSE msgs

\* duration is <<seconds>>, or <<>> for undefined
updateStreamingThinking_v8(msgs, inProgress, duration) ==
  IF msgs # <<>> /\ Last(msgs).isStreaming
  THEN SetLast(msgs, [Last(msgs) EXCEPT
         !.thinkingInProgress = inProgress,
         !.thinkingExpanded = IF inProgress THEN TRUE ELSE @,
         !.thinkingDuration = IF duration # <<>> THEN duration ELSE @])
  ELSE msgs

\* the chat moves to the top of the list with message_count + 1
updateChatInList(chatList, chatId) ==
  LET hits == {i \in 1..Len(chatList) : chatList[i].id = chatId}
  IN IF hits = {} THEN chatList
     ELSE LET idx == CHOOSE i \in hits : \A j \in hits : i <= j
          IN <<[chatList[idx] EXCEPT !.message_count = @ + 1]>>
             \o SubSeq(chatList, 1, idx - 1)
             \o SubSeq(chatList, idx + 1, Len(chatList))

\* thinking is <<text>> or <<>>, thinkingDuration <<seconds>> or <<>>
finalizeStreamingMessage_msgs(msgs, thinking, thinkingDuration) ==
  IF msgs # <<>> /\ Last(msgs).isStreaming
  THEN SetLast(msgs, [Last(msgs) EXCEPT
         !.isStreaming = FALSE,
         !.thinkingInProgress = FALSE,
         !.thinking = IF thinking # <<>> /\ thinking[1] # <<>>
                      THEN thinking[1] ELSE @,
         !.thinkingDuration = IF thinkingDuration # <<>>
                              THEN thinkingDuration ELSE @,
         !.thinkingExpanded = FALSE])
  ELSE msgs

removeStreamingMessage_v8(msgs) == SelectSeq(msgs, LAMBDA m : ~m.isStreaming)

\* ------------------------------------------------------- object identity
\* A call creates one user message object and one placeholder object; `sid`
\* and `role` name the object.
sameObject(a, b) == a.sid = b.sid /\ a.role = b.role

\* What an array read from the messages signal shows once the signal holds
\* `msgs`.  The mutators of app.config.ts copy the array but assign to the
\* fields of the last message object itself (last.content += token), so the
\* object in the earlier array is the one that changed.  The mutators of
\* chat.service.ts put a new object into the new array
\* (updated[lastIdx] = {...updated[lastIdx], ...}) and leave the old one alone.
heldAfter(v, held, msgs) ==
  IF v = "v9"
  THEN [i \in 1..Len(held) |->
          LET same == {j \in 1..Len(msgs) : sameObject(held[i], msgs[j])}
          IN IF same = {} THEN held[i] ELSE msgs[CHOOSE j \in same : TRUE]]
  ELSE held

\* ------------------------------------------------ StreamingService handlers
\* The handlers work on the record of everything they can read or write:
\*   messages, chats, activeChatId   ChatService signals
\*   isThinking, thinkingStartTime, currentThinking   StreamingService fields
\*   nFinal   bookkeeping only: how many finalizeStreamingMessage calls of the
\*            running session changed a signal
\* thinkingStartTime 0 stands for both null (part_009) and 0 (part_008); the
\* code only tests it for truthiness.
\* faulty variant: the message is finalized with its content as it stands
finalizeMessage_uncleaned(st) ==
  LET message == getCurrentStreamingMessage(st.messages)
  IN IF message # <<>>
     THEN [st EXCEPT
             !.messages = finalizeStreamingMessage_v9(st.messages, <<>>),
             !.nFinal = @ + 1]
     ELSE st

finalizeMessage_v9(st) ==
  LET message == getCurrentStreamingMessage(st.messages)
  IN IF message # <<>>
     THEN [st EXCEPT
             !.messages = finalizeStreamingMessage_v9(
                            st.messages, <<cleanFinalResponse(message[1].content)>>),
             !.nFinal = @ + 1]
     ELSE st

\* faulty variant: a thinking_token is taken whether or not reasoning began
handleStreamEvent_anyThinkingToken(st, event, t) ==
  CASE event.type = "thinking_start" ->
         [st EXCEPT !.isThinking = TRUE,
                    !.thinkingStartTime = t,
                    !.currentThinking = <<>>,
                    !.messages = updateStreamingThinking_v9(@, TRUE)]
    [] event.type = "thinking_token" ->
         IF event.data # <<>>
         THEN [st EXCEPT !.currentThinking = Append(@, event.data),
                         !.messages = appendToStreamingThinking_v9(@, event.data)]
         ELSE st
    [] event.type = "thinking_end" ->
         LET duration == IF st.thinkingStartTime # 0
                         THEN roundSeconds(t - st.thinkingStartTime) ELSE 0
         IN [st EXCEPT !.isThinking = FALSE,
                       !.messages = finalizeStreamingThinking(
                                      @, Concat(st.currentThinking), duration)]
    [] event.type = "token" ->
         IF ~st.isThinking /\ event.data # <<>> /\ cleanToken(event.data) # <<>>
         THEN [st EXCEPT !.messages =
                 appendToStreamingMessage_v9(@, cleanToken(event.data))]
         ELSE st
    [] event.type = "file_generated" ->
         IF event.data # <<>> /\ parseFileInfo(event.data) # <<>>
         THEN [st EXCEPT !.messages =
                 attachGeneratedFile(@, parseFileInfo(event.data)[1])]
         ELSE st
    [] event.type = "done" -> finalizeMessage_v9(st)
    [] event.type = "error" ->
         [st EXCEPT !.messages = removeStreamingMessage_v9(@)]
    [] OTHER -> st

handleStreamEvent_v9(st, event, t) ==
  CASE event.type = "thinking_start" ->
         [st EXCEPT !.isThinking = TRUE,
                    !.thinkingStartTime = t,
                    !.currentThinking = <<>>,
                    !.messages = updateStreamingThinking_v9(@, TRUE)]
    [] event.type = "thinking_token" ->
         IF st.isThinking /\ event.data # <<>>
         THEN [st EXCEPT !.currentThinking = Append(@, event.data),
                         !.messages = appendToStreamingThinking_v9(@, event.data)]
         ELSE st
    [] event.type = "thinking_end" ->
         LET duration == IF st.thinkingStartTime # 0
                         THEN roundSeconds(t - st.thinkingStartTime) ELSE 0
         IN [st EXCEPT !.isThinking = FALSE,
                       !.messages = finalizeStreamingThinking(
                                      @, Concat(st.currentThinking), duration)]
    [] event.type = "token" ->
         IF ~st.isThinking /\ event.data # <<>> /\ cleanToken(event.data) # <<>>
         THEN [st EXCEPT !.messages =
                 appendToStreamingMessage_v9(@, cleanToken(event.data))]
         ELSE st
    [] event.type = "file_generated" ->
         IF event.data # <<>> /\ parseFileInfo(event.data) # <<>>
         THEN [st EXCEPT !.messages =
                 attachGeneratedFile(@, parseFileInfo(event.data)[1])]
         ELSE st
    [] event.type = "done" -> finalizeMessage_v9(st)
    [] event.type = "error" ->
         [st EXCEPT !.messages = removeStreamingMessage_v9(@)]
    [] OTHER -> st

\* ChatService.finalizeStreamingMessage of chat.service.ts: the guarded update
\* of the last message, then the unguarded updateChatInList.
finalizeStreamingMessage_v8(st, thinking, thinkingDuration) ==
  LET msgs == finalizeStreamingMessage_msgs(st.messages, thinking, thinkingDuration)
      cl == IF st.activeChatId # <<>>
            THEN updateChatInList(st.chats, st.activeChatId[1]) ELSE st.chats
  IN [st EXCEPT !.messages = msgs,
                !.chats = cl,
                !.nFinal = IF msgs # st.messages \/ cl # st.chats THEN @ + 1 ELSE @]

finalizeMessage_v8(st, t) ==
  LET thinkingDuration == IF st.thinkingStartTime # 0
                          THEN <<roundSeconds(t - st.thinkingStartTime)>> ELSE <<>>
      thinkingContent == IF Len(st.currentThinking) > 0
                         THEN <<Concat(st.currentThinking)>> ELSE <<>>
  IN finalizeStreamingMessage_v8(st, thinkingContent, thinkingDuration)

handleStreamEvent_v8(st, event, t) ==
  CASE event.type = "thinking_start" ->
         [st EXCEPT !.isThinking = TRUE,
                    !.thinkingStartTime = t,
                    !.currentThinking = <<>>,
                    !.messages = updateStreamingThinking_v8(@, TRUE, <<>>)]
    [] event.type = "thinking_token" ->
         IF st.isThinking /\ event.data # <<>>
         THEN [st EXCEPT !.currentThinking = Append(@, event.data),
                         !.messages = appendToStreamingThinking_v8(@, event.data)]
         ELSE st
    [] event.type = "thinking_end" ->
         LET duration == IF st.thinkingStartTime # 0
                         THEN <<roundSeconds(t - st.thinkingStartTime)>> ELSE <<>>
         IN [st EXCEPT !.isThinking = FALSE,
                       !.messages = updateStreamingThinking_v8(@, FALSE, duration)]
    [] event.type = "token" ->
         IF ~st.isThinking
         THEN [st EXCEPT !.messages = appendToStreamingMessage_v8(@, event.data)]
         ELSE [st EXCEPT !.currentThinking = Append(@, event.data),
                         !.messages = appendToStreamingThinking_v8(@, event.data)]
    [] event.type = "error" ->
         [st EXCEPT !.messages = removeStreamingMessage_v8(@)]
    [] OTHER -> st

\* faulty variant: a status event is handled like a token event
handleStreamEvent_statusAsToken(v, st, event, t) ==
  LET e == IF event.type = "status" THEN [event EXCEPT !.type = "token"]
           ELSE event
  IN IF v = "v9" THEN handleStreamEvent_v9(st, e, t)
     ELSE handleStreamEvent_v8(st, e, t)

handleStreamEvent(v, st, event, t) ==
  IF v = "v9" THEN handleStreamEvent_v9(st, event, t)
  ELSE handleStreamEvent_v8(st, event, t)

finalizeMessage(v, st, t) ==
  IF v = "v9" THEN finalizeMessage_v9(st) ELSE finalizeMessage_v8(st, t)

\* faulty variant: nothing is removed
removeStreamingMessage_keeps(v, msgs) == msgs

removeStreamingMessage(v, msgs) ==
  IF v = "v9" THEN removeStreamingMessage_v9(msgs) ELSE removeStreamingMessage_v8(msgs)

\* ------------------------------------------------------------- frame decoder
\* One line of the read loop: <<event>> when the line is a "data: " line whose
\* trimmed payload is non-empty and parses, else <<>> (skipped, or warned).
lineEvent(line) ==
  IF startsWith(line, DataPrefix)
  THEN LET jsonStr == trim(Drop(line, 6))
       IN IF jsonStr # <<>> THEN JSONparse(jsonStr) ELSE <<>>
  ELSE <<>>

\* const lines = buffer.split('\n'); buffer = lines.pop() || ''
linesOf(text) == LET parts == split(text, <<"\n">>) IN SubSeq(parts, 1, Len(parts) - 1)

\* faulty variant: the fragment after the last newline is dropped, not held back
restOf_dropped(text) == <<>>

restOf(text) == LET parts == split(text, <<"\n">>) IN parts[Len(parts)]

RECURSIVE eventsOf(_)
eventsOf(lines) ==
  IF lines = <<>> THEN <<>> ELSE lineEvent(Head(lines)) \o eventsOf(Tail(lines))

\* for (const line of lines) ... this.handleStreamEvent(event)
RECURSIVE handleAll(_, _, _, _)
handleAll(v, st, events, t) ==
  IF events = <<>> THEN st
  ELSE handleAll(v, handleStreamEvent(v, st, Head(events), t), Tail(events), t)

\* --------------------------------------------------------------------- state
VARIABLES
  variant,            \* which generation of the code runs
  now,                \* Date.now(), milliseconds
  messages,           \* ChatService.messagesSignal
  chats,              \* ChatService.chatsSignal
  activeChatId,       \* ChatService.activeChatIdSignal, <<id>> or <<>>
  abortController,    \* StreamingService.abortController: 0 for null, else the
                      \* controller made by the session of that number
  isThinking,         \* StreamingService.isThinking
  thinkingStartTime,  \* StreamingService.thinkingStartTime
  currentThinking,    \* StreamingService.currentThinking
  aborts,             \* per controller, the number of abort() calls on it
  ses,                \* per sendStreamingMessage call: where its async body
                      \* stands (pc), how its promise settled (err), its line
                      \* buffer; and as bookkeeping the text delivered to it,
                      \* the events it handled, its effective finalize calls
  nStarted,           \* number of sendStreamingMessage calls so far
  sending,            \* ChatWindowComponent.sending of the live instance
  awaited,            \* the session that instance awaits, 0 for none
  wire,               \* the text a fixed response body has yet to deliver
  nLines,             \* lines delivered so far, over all sessions
  nRecreate,          \* component instances created after the first
  sample,             \* a text handed to the sanitizer on its own
  cleaned             \* <<>>, or what the sanitizer made of `sample`: which
                      \* function (by), its first result (once), its latest
                      \* result (text) and how often it was applied (times)

vars == <<variant, now, messages, chats, activeChatId, abortController,
          isThinking, thinkingStartTime, currentThinking, aborts, ses,
          nStarted, sending, awaited, wire, nLines, nRecreate, sample,
          cleaned>>

Sessions == 1..MaxSessions

UserContent == <<"q">>

\* status is response.status of a response that was not ok (0: no such
\* response), message the error.message of the error thrown for it
NewSession ==
  [pc |-> "idle", err |-> "none", buffer |-> <<>>, delivered |-> <<>>,
   handled |-> <<>>, nFinal |-> 0, status |-> 0, message |-> <<>>]

InitWith(w) ==
  /\ variant \in Variants
  /\ now = 1000
  /\ messages = <<>>
  /\ chats = <<[id |-> "c1", message_count |-> 0]>>
  /\ activeChatId = <<"c1">>
  /\ abortController = 0
  /\ isThinking = FALSE
  /\ thinkingStartTime = 0
  /\ currentThinking = <<>>
  /\ aborts = [c \in Sessions |-> 0]
  /\ ses = [s \in Sessions |-> NewSession]
  /\ nStarted = 0
  /\ sending = FALSE
  /\ awaited = 0
  /\ wire = w
  /\ nLines = 0
  /\ nRecreate = 0

\* no text is handed to the sanitizer on its own
Unsampled == sample = <<>> /\ cleaned = <<>>

Init == InitWith(<<>>) /\ Unsampled

\* The signals and fields as the handlers see them.
SvcState ==
  [messages |-> messages, chats |-> chats, activeChatId |-> activeChatId,
   isThinking |-> isThinking, thinkingStartTime |-> thinkingStartTime,
   currentThinking |-> currentThinking, nFinal |-> 0]

Suspended(s) == ses[s].pc \in {"fetch", "read"}

\* abort() rejects the pending fetch / read at once and the continuation of
\* the awaiting body is a microtask: it runs before any other task.
AbortPending(s) == Suspended(s) /\ aborts[s] > 0

\* faulty variant: the rejection of the pending read waits for its turn
NoMicrotask_queued == TRUE

NoMicrotask == \A s \in Sessions : ~AbortPending(s)

\* ChatWindowComponent.sendMessage's finally, once the awaited call settled
ComponentSettles(s) ==
  /\ sending' = IF awaited = s THEN FALSE ELSE sending
  /\ awaited' = IF awaited = s THEN 0 ELSE awaited

\* ---------------------------------------------------------------- operations
\* faulty variant: the controller is aborted but stays installed
cancelStream_keepsController(ac, ab) ==
  IF ac # 0
  THEN [abortController |-> ac, aborts |-> [ab EXCEPT ![ac] = @ + 1]]
  ELSE [abortController |-> ac, aborts |-> ab]

\* cancelStream() of part_009: the controller and the abort counts after it
cancelStream(ac, ab) ==
  IF ac # 0
  THEN [abortController |-> 0, aborts |-> [ab EXCEPT ![ac] = @ + 1]]
  ELSE [abortController |-> ac, aborts |-> ab]

\* sendStreamingMessage up to its first await (part_009, lines 47-79)
sendStreamingMessage_v9(s) ==
  /\ aborts' = cancelStream(abortController, aborts).aborts
  /\ abortController' = s
  /\ isThinking' = FALSE
  /\ thinkingStartTime' = 0
  /\ currentThinking' = <<>>
  /\ messages' = createStreamingMessage(
                   addUserMessage(messages, UserContent, now, s), now, s)
  /\ ses' = [ses EXCEPT ![s].pc = "fetch"]

\* sendStreamingMessage up to its first await (part_008, lines 499-529)
sendStreamingMessage_v8(s) ==
  /\ messages' = startStreamingMessage(
                   addUserMessage(messages, UserContent, now, s), now, s)
  /\ isThinking' = FALSE
  /\ currentThinking' = <<>>
  /\ thinkingStartTime' = 0
  /\ abortController' = s
  /\ aborts' = aborts
  /\ ses' = [ses EXCEPT ![s].pc = "fetch"]

\* faulty variant: sendMessage without the `this.sending` test
sendMessage_unguarded ==
  /\ NoMicrotask
  /\ activeChatId # <<>>
  /\ nStarted < MaxSessions
  /\ sending' = TRUE
  /\ awaited' = nStarted + 1
  /\ nStarted' = nStarted + 1
  /\ IF variant = "v9" THEN sendStreamingMessage_v9(nStarted + 1)
     ELSE sendStreamingMessage_v8(nStarted + 1)
  /\ UNCHANGED <<sample, cleaned, variant, now, chats, activeChatId, wire,
                 nLines, nRecreate>>

\* ChatWindowComponent.sendMessage with non-empty input and no pending files
sendMessage ==
  /\ NoMicrotask
  /\ ~sending
  /\ activeChatId # <<>>
  /\ nStarted < MaxSessions
  /\ sending' = TRUE
  /\ awaited' = nStarted + 1
  /\ nStarted' = nStarted + 1
  /\ IF variant = "v9" THEN sendStreamingMessage_v9(nStarted + 1)
     ELSE sendStreamingMessage_v8(nStarted + 1)
  /\ UNCHANGED <<sample, cleaned, variant, now, chats, activeChatId, wire,
                 nLines, nRecreate>>

\* The router builds a new ChatWindowComponent (sending = false) while the
\* root-provided services live on.  With sending already false the new
\* instance is in the state of the old one, so only the other case is a step.
ComponentRecreated ==
  /\ NoMicrotask
  /\ sending
  /\ nRecreate < MaxRecreate
  /\ nRecreate' = nRecreate + 1
  /\ sending' = FALSE
  /\ awaited' = 0
  /\ UNCHANGED <<sample, cleaned, variant, now, messages, chats, activeChatId, abortController,
                 isThinking, thinkingStartTime, currentThinking, aborts, ses,
                 nStarted, wire, nLines>>

\* A call of cancelStream() (part_009) or abort() (part_008) from outside.
\* With no controller installed the call changes nothing (a stuttering step).
CancelCall ==
  /\ NoMicrotask
  /\ abortController' = cancelStream(abortController, aborts).abortController
  /\ aborts' = cancelStream(abortController, aborts).aborts
  /\ isThinking' = IF variant = "v8" /\ abortController # 0 THEN FALSE
                   ELSE isThinking
  /\ UNCHANGED <<sample, cleaned, variant, now, messages, chats, activeChatId,
                 thinkingStartTime, currentThinking, ses, nStarted, sending,
                 awaited, wire, nLines, nRecreate>>

\* catch (error) { AbortError: log only } finally { ... }, promise rejects
AbortDelivered(s) ==
  /\ AbortPending(s)
  /\ ses' = [ses EXCEPT ![s].pc = "rejected", ![s].err = "AbortError"]
  /\ abortController' = 0
  /\ isThinking' = FALSE
  /\ ComponentSettles(s)
  /\ UNCHANGED <<sample, cleaned, variant, now, messages, chats, activeChatId,
                 thinkingStartTime, currentThinking, aborts, nStarted, wire,
                 nLines, nRecreate>>

\* faulty variant: the rejection leaves the controller and the flag as they are
Throws_noFinally(s) ==
  /\ messages' = removeStreamingMessage(variant, messages)
  /\ ses' = [ses EXCEPT ![s].pc = "rejected", ![s].err = "Error"]
  /\ ComponentSettles(s)
  /\ UNCHANGED <<sample, cleaned, variant, now, chats, activeChatId,
                 abortController, isThinking, thinkingStartTime,
                 currentThinking, aborts, nStarted, wire, nLines, nRecreate>>

\* catch (error) { other: removeStreamingMessage } finally { ... }, rejects
Throws(s) ==
  /\ messages' = removeStreamingMessage(variant, messages)
  /\ ses' = [ses EXCEPT ![s].pc = "rejected", ![s].err = "Error"]
  /\ abortController' = 0
  /\ isThinking' = FALSE
  /\ ComponentSettles(s)
  /\ UNCHANGED <<sample, cleaned, variant, now, chats, activeChatId, thinkingStartTime,
                 currentThinking, aborts, nStarted, wire, nLines, nRecreate>>

\* the response statuses for which response.ok is false, two of them
NotOkStatuses == {404, 500}

\* fetch rejects, or the response has no body
FetchFails(s) ==
  /\ NoMicrotask
  /\ ses[s].pc = "fetch"
  /\ Throws(s)

\* fetch resolves with a response that is not ok:
\* throw new Error(`Stream failed: ${response.status}`), then catch / finally
FetchNotOk(s) ==
  /\ NoMicrotask
  /\ ses[s].pc = "fetch"
  /\ \E status \in NotOkStatuses :
       /\ messages' = removeStreamingMessage(variant, messages)
       /\ ses' = [ses EXCEPT ![s].pc = "rejected", ![s].err = "Error",
                             ![s].status = status,
                             ![s].message = <<"Stream failed: ", status>>]
  /\ abortController' = 0
  /\ isThinking' = FALSE
  /\ ComponentSettles(s)
  /\ UNCHANGED <<sample, cleaned, variant, now, chats, activeChatId,
                 thinkingStartTime, currentThinking, aborts, nStarted, wire,
                 nLines, nRecreate>>

\* fetch resolves with an ok response; the body enters the read loop
FetchOk(s) ==
  /\ NoMicrotask
  /\ ses[s].pc = "fetch"
  /\ ses' = [ses EXCEPT ![s].pc = "read", ![s].buffer = <<>>]
  /\ UNCHANGED <<sample, cleaned, variant, now, messages, chats, activeChatId, abortController,
                 isThinking, thinkingStartTime, currentThinking, aborts,
                 nStarted, sending, awaited, wire, nLines,
                 nRecreate>>

\* reader.read() resolves with a chunk: one pass of the loop body
ReadChunk(s, chunk) ==
  /\ NoMicrotask
  /\ ses[s].pc = "read"
  /\ LET text == ses[s].buffer \o chunk
         events == eventsOf(linesOf(text))
         st == handleAll(variant, SvcState, events, now)
     IN /\ messages' = st.messages
        /\ chats' = st.chats
        /\ isThinking' = st.isThinking
        /\ thinkingStartTime' = st.thinkingStartTime
        /\ currentThinking' = st.currentThinking
        /\ ses' = [ses EXCEPT ![s].buffer = restOf(text),
                              ![s].delivered = @ \o chunk,
                              ![s].handled = @ \o events,
                              ![s].nFinal = @ + st.nFinal]
  /\ UNCHANGED <<sample, cleaned, variant, now, activeChatId, abortController, aborts,
                 nStarted, sending, awaited, nRecreate>>

\* faulty variant: at end of stream the held fragment is handled as a line
ReadDone_flushes(s) ==
  /\ NoMicrotask
  /\ ses[s].pc = "read"
  /\ wire = <<>>
  /\ LET events == lineEvent(ses[s].buffer)
         st0 == handleAll(variant, SvcState, events, now)
         st == finalizeMessage(variant, st0, now)
     IN /\ messages' = st.messages
        /\ chats' = st.chats
        /\ ses' = [ses EXCEPT ![s].pc = "resolved",
                              ![s].handled = @ \o events,
                              ![s].nFinal = @ + st.nFinal]
  /\ abortController' = 0
  /\ isThinking' = FALSE
  /\ ComponentSettles(s)
  /\ UNCHANGED <<sample, cleaned, variant, now, activeChatId, thinkingStartTime,
                 currentThinking, aborts, nStarted, wire, nLines, nRecreate>>

\* reader.read() resolves with done: break, finalizeMessage(), finally
ReadDone(s) ==
  /\ NoMicrotask
  /\ ses[s].pc = "read"
  /\ wire = <<>>
  /\ LET st == finalizeMessage(variant, SvcState, now)
     IN /\ messages' = st.messages
        /\ chats' = st.chats
        /\ ses' = [ses EXCEPT ![s].pc = "resolved", ![s].nFinal = @ + st.nFinal]
  /\ abortController' = 0
  /\ isThinking' = FALSE
  /\ ComponentSettles(s)
  /\ UNCHANGED <<sample, cleaned, variant, now, activeChatId, thinkingStartTime,
                 currentThinking, aborts, nStarted, wire, nLines, nRecreate>>

\* reader.read() rejects with a network error
ReadFails(s) ==
  /\ NoMicrotask
  /\ ses[s].pc = "read"
  /\ Throws(s)

\* ---------------------------------------------------------------- transport
\* The server writes whole frames and the transport hands them over one or
\* two to a chunk, at most `max` in all.
Serve(s, lines, max) ==
  \/ \E l \in lines :
       /\ nLines < max
       /\ nLines' = nLines + 1
       /\ ReadChunk(s, l)
       /\ UNCHANGED wire
  \/ \E l1 \in lines, l2 \in lines :
       /\ nLines + 1 < max
       /\ nLines' = nLines + 2
       /\ ReadChunk(s, l1 \o l2)
       /\ UNCHANGED wire

\* ----------------------------------------------- sessions side by side: Spec
SessionLines == { Frame("s", <<>>), Frame("k", <<"a">>), Frame("D", <<>>) }

ServerChunk(s) == Serve(s, SessionLines, MaxLines)

Next ==
  \/ sendMessage
  \/ ComponentRecreated
  \/ CancelCall
  \/ \E s \in Sessions : AbortDelivered(s)
  \/ \E s \in Sessions : FetchFails(s)
  \/ \E s \in Sessions : FetchOk(s)
  \/ \E s \in Sessions : ServerChunk(s)
  \/ \E s \in Sessions : ReadDone(s)
  \/ \E s \in Sessions : ReadFails(s)

Spec == Init /\ [][Next]_vars

\* A step of the transport: a pending fetch is answered or fails, a body ends
\* or fails, an aborted await is rejected.
TransportSettles ==
  \E s \in Sessions :
    \/ AbortDelivered(s)
    \/ FetchOk(s)
    \/ FetchFails(s)
    \/ ReadFails(s)
    \/ ReadDone(s)

\* While a call awaits the transport, the transport goes on: the event loop
\* runs the continuation of an await once its promise has settled.
TransportFair == WF_vars(TransportSettles)

\* the sessions side by side, each body a run of thinking_start lines
LiveLines == { Frame("s", <<>>) }

LiveChunk(s) == Serve(s, LiveLines, MaxLines)

NextLive ==
  \/ sendMessage
  \/ ComponentRecreated
  \/ CancelCall
  \/ \E s \in Sessions : LiveChunk(s)
  \/ TransportSettles

SpecLive == Init /\ [][NextLive]_vars /\ TransportFair

\* ------------------------------------- one session, every event: SpecEvents
EventLines ==
  { Frame("s", <<>>), Frame("t", <<"a">>), Frame("e", <<>>),
    Frame("k", <<"a">>), Frame("f", <<"(","1",")">>), Frame("D", <<>>),
    Frame("E", <<>>), Frame("h", <<>>) }

FirstSend == nStarted = 0 /\ sendMessage

EventChunk == Serve(1, EventLines, MaxEventLines)

NextEvents ==
  \/ FirstSend
  \/ CancelCall
  \/ AbortDelivered(1)
  \/ FetchFails(1)
  \/ FetchNotOk(1)
  \/ FetchOk(1)
  \/ EventChunk
  \/ ReadDone(1)
  \/ ReadFails(1)

SpecEvents == Init /\ [][NextEvents]_vars

\* ------------------------------ a fixed body cut at any place: SpecDecode
\* "data: {ka}\ndata: {D}\n"
StreamPlain == Frame("k", <<"a">>) \o Frame("D", <<>>)

\* "data: {ka}\r\n\r\ndata: {h}\n": CRLF line ends and a blank line
StreamCRLF ==
  DataPrefix \o <<"{","k","a","}","\r","\n","\r","\n">> \o Frame("h", <<>>)

\* "data: x\n:\ndata: {s}\ndata: {D}": a payload that is not JSON, a line
\* without the prefix, and a last frame with no newline after it
StreamRagged ==
  DataPrefix \o <<"x","\n",":","\n">> \o Frame("s", <<>>)
    \o DataPrefix \o <<"{","D","}">>

\* "data:  {ka} \n\ndat\ndata: {E}\n": blanks around the payload
StreamPadded ==
  DataPrefix \o <<" ","{","k","a","}"," ","\n","\n","d","a","t","\n">>
    \o Frame("E", <<>>)

\* "data: {ka}\ndata: {ka}": the last token record has no newline after it
StreamTail == Frame("k", <<"a">>) \o DataPrefix \o <<"{","k","a","}">>

DecodeStreams ==
  {StreamPlain, StreamCRLF, StreamRagged, StreamPadded, StreamTail}

InitDecode == (\E w \in DecodeStreams : InitWith(w)) /\ Unsampled

\* the transport hands over the next k characters of the body
DeliverPrefix(k) ==
  /\ ReadChunk(1, SubSeq(wire, 1, k))
  /\ wire' = Drop(wire, k)
  /\ UNCHANGED nLines

NextDecode ==
  \/ FirstSend
  \/ FetchOk(1)
  \/ \E k \in 1..Len(wire) : DeliverPrefix(k)
  \/ ReadDone(1)

SpecDecode == InitDecode /\ [][NextDecode]_vars

\* ------------------------------------- the sanitizer alone: SpecSanitize
\* Texts are put together from fragments of the markers the sanitizer looks
\* for: "<", "s", ">", "<s>", "/en", a newline, "<|s|>" and a blank.
Pieces ==
  { <<"<">>, <<"s">>, <<">">>, <<"<","s",">">>, <<"/","e","n">>, <<"\n">>,
    <<"<","|","s","|",">">>, <<" ">> }

RECURSIVE SamplesOf(_)
SamplesOf(n) ==
  IF n = 0 THEN {<<>>}
  ELSE LET shorter == SamplesOf(n - 1)
       IN shorter \cup {t \o p : t \in shorter, p \in Pieces}

Samples == SamplesOf(MaxPieces)

\* cleanToken and cleanFinalResponse exist in part_009 only
InitSanitize ==
  InitWith(<<>>) /\ variant = "v9" /\ sample \in Samples /\ cleaned = <<>>

programVars ==
  <<variant, now, messages, chats, activeChatId, abortController, isThinking,
    thinkingStartTime, currentThinking, aborts, ses, nStarted, sending,
    awaited, wire, nLines, nRecreate>>

sanitize(by, text) ==
  IF by = "cleanToken" THEN cleanToken(text) ELSE cleanFinalResponse(text)

\* this.cleanToken(sample)
ApplyCleanToken ==
  /\ cleaned = <<>>
  /\ cleaned' = <<[by |-> "cleanToken", once |-> cleanToken(sample),
                   text |-> cleanToken(sample), times |-> 1]>>
  /\ UNCHANGED <<programVars, sample>>

\* this.cleanFinalResponse(sample)
ApplyCleanFinalResponse ==
  /\ cleaned = <<>>
  /\ cleaned' = <<[by |-> "cleanFinalResponse",
                   once |-> cleanFinalResponse(sample),
                   text |-> cleanFinalResponse(sample), times |-> 1]>>
  /\ UNCHANGED <<programVars, sample>>

\* the same function applied to its own result
ApplyAgain ==
  /\ cleaned # <<>>
  /\ cleaned[1].times = 1
  /\ cleaned' = <<[cleaned[1] EXCEPT !.text = sanitize(cleaned[1].by, @),
                                     !.times = 2]>>
  /\ UNCHANGED <<programVars, sample>>

NextSanitize ==
  \/ ApplyCleanToken
  \/ ApplyCleanFinalResponse
  \/ ApplyAgain

SpecSanitize == InitSanitize /\ [][NextSanitize]_vars

\* --------------------------- one session, tokens with markers: SpecTokens
\* token payloads "<<s", ">s>", "<s>", " <s> " and "a"
TokenPayloads ==
  { <<"<","<","s">>, <<">","s",">">>, <<"<","s",">">>,
    <<" ","<","s",">"," ">>, <<"a">> }

TokenLines ==
  {Frame("k", d) : d \in TokenPayloads} \cup {Frame("s", <<>>), Frame("D", <<>>)}

TokenChunk == Serve(1, TokenLines, MaxTokenLines)

NextTokens ==
  \/ FirstSend
  \/ FetchOk(1)
  \/ TokenChunk
  \/ ReadDone(1)

SpecTokens == Init /\ [][NextTokens]_vars

\* ------------------------- whole conversations, cut anywhere: SpecScenario
LetMeCheck == <<"L","e","t"," ","m","e"," ","c","h","e","c","k">>

Hello == <<"H","e","l","l","o">>

World == <<" ","w","o","r","l","d">>

\* thinking_start, thinking_token("Let me check"), thinking_end,
\* token("Hello"), token(" world"), done
ScenarioA ==
  Frame("s", <<>>) \o Frame("t", LetMeCheck) \o Frame("e", <<>>)
    \o Frame("k", Hello) \o Frame("k", World) \o Frame("D", <<>>)

\* two thinking tokens, and a last token that is a blank
ScenarioBlank ==
  Frame("s", <<>>) \o Frame("t", <<"a">>) \o Frame("t", <<"b">>)
    \o Frame("e", <<>>) \o Frame("k", Hello) \o Frame("k", <<" ">>)
    \o Frame("D", <<>>)

ScenarioStreams == {ScenarioA, ScenarioBlank}

InitScenario == (\E w \in ScenarioStreams : InitWith(w)) /\ Unsampled

SpecScenario == InitScenario /\ [][NextDecode]_vars

\* ------------------- one session, events to be passed over: SpecQuiet
\* heartbeat, status("x") and file_ready, a type no generation knows, among
\* thinking_start, thinking_token("a"), token("a") and done
QuietLines ==
  { Frame("h", <<>>), Frame("S", <<"x">>), Frame("y", <<>>),
    Frame("s", <<>>), Frame("t", <<"a">>), Frame("k", <<"a">>),
    Frame("D", <<>>) }

QuietChunk == Serve(1, QuietLines, MaxQuietLines)

NextQuiet ==
  \/ FirstSend
  \/ FetchOk(1)
  \/ QuietChunk
  \/ ReadDone(1)

SpecQuiet == Init /\ [][NextQuiet]_vars

\* ------------------------ one session while time passes: SpecClock
\* Date.now() moves on by a second between two steps of the program
Tick ==
  /\ NoMicrotask
  /\ now < 1000 + 1000 * MaxTicks
  /\ now' = now + 1000
  /\ UNCHANGED <<sample, cleaned, variant, messages, chats, activeChatId,
                 abortController, isThinking, thinkingStartTime,
                 currentThinking, aborts, ses, nStarted, sending, awaited,
                 wire, nLines, nRecreate>>

ClockLines ==
  { Frame("s", <<>>), Frame("e", <<>>), Frame("k", <<"a">>), Frame("D", <<>>) }

ClockChunk == Serve(1, ClockLines, MaxClockLines)

NextClock ==
  \/ FirstSend
  \/ FetchOk(1)
  \/ Tick
  \/ ClockChunk
  \/ ReadDone(1)

SpecClock == Init /\ [][NextClock]_vars

\* ------------------ one session and a reload of the message list: SpecLoad
\* the messages of the chat as the backend returns them: an earlier exchange,
\* none of them streaming
StoredMessages ==
  << [role |-> "user", content |-> <<"p">>, timestamp |-> 0,
      isStreaming |-> FALSE, thinking |-> <<>>,
      thinkingExpanded |-> FALSE, thinkingInProgress |-> FALSE,
      thinkingDuration |-> <<>>, generatedFile |-> <<>>, sid |-> 0],
     [role |-> "assistant", content |-> <<"b">>, timestamp |-> 0,
      isStreaming |-> FALSE, thinking |-> <<>>,
      thinkingExpanded |-> FALSE, thinkingInProgress |-> FALSE,
      thinkingDuration |-> <<>>, generatedFile |-> <<>>, sid |-> 0] >>

\* loadMessages(chatId): the response of GET /chats/:id/messages arrives and
\* `messagesSignal.set(messages)` replaces the list
loadMessages ==
  /\ NoMicrotask
  /\ activeChatId # <<>>
  /\ messages # StoredMessages
  /\ messages' = StoredMessages
  /\ UNCHANGED <<sample, cleaned, variant, now, chats, activeChatId,
                 abortController, isThinking, thinkingStartTime,
                 currentThinking, aborts, ses, nStarted, sending, awaited,
                 wire, nLines, nRecreate>>

LoadLines ==
  { Frame("s", <<>>), Frame("t", <<"a">>), Frame("k", <<"a">>),
    Frame("f", <<"(","1",")">>) }

LoadChunk == Serve(1, LoadLines, MaxLoadLines)

NextLoad ==
  \/ FirstSend
  \/ FetchOk(1)
  \/ loadMessages
  \/ LoadChunk
  \/ ReadDone(1)

SpecLoad == Init /\ [][NextLoad]_vars

\* ===================================================================== claims
\* C1: frame decoding does not depend on where the body is cut into chunks:
\* whatever the cuts so far, the events a session has handled are the events
\* of the complete lines of the text delivered to it, taken as one chunk.
C1_ChunkBoundaryIndependent ==
  \A s \in Sessions : ses[s].handled = eventsOf(linesOf(ses[s].delivered))

\* a frame was handled and a fragment cut inside the next "data: " is held
C1_Witness ==
  /\ Len(ses[1].handled) >= 1
  /\ ses[1].buffer = <<"d","a","t">>
  /\ wire # <<>>

\* helpers of the claims
HasType(h, types) == \E i \in 1..Len(h) : h[i].type \in types

Placeholder(s) ==
  \E i \in 1..Len(messages) :
    messages[i].sid = s /\ messages[i].role = "assistant"

\* C2: once a later sendStreamingMessage call has begun, no event of an
\* earlier session's stream is applied to any message (the earlier session
\* was cancelled first).
C2_NoWriteByEarlierSession ==
  [][\A s \in Sessions :
       (s < nStarted /\ ses'[s].handled # ses[s].handled)
         => messages' = messages]_vars

\* C3 as claimed: a start while another session is open changes no state and
\* issues no request.
C3_StartWhileOpenRefused ==
  [][(nStarted' # nStarted /\ \E s \in Sessions : Suspended(s))
       => /\ messages' = messages
          /\ abortController' = abortController
          /\ aborts' = aborts
          /\ ses'[nStarted'].pc # "fetch"]_vars

\* C3 as amended: the busy check is the component's `sending` flag: while it
\* is set no session starts (the call returns at once, nothing is raised).
\* The service refuses nothing: a start that finds another session open
\* appends both messages and issues its request.
C3_BusyIsTheComponentGuard ==
  [][/\ sending => nStarted' = nStarted
     /\ (nStarted' # nStarted /\ \E s \in Sessions : Suspended(s))
          => /\ Len(messages') = Len(messages) + 2
             /\ Last(messages').isStreaming
             /\ ses'[nStarted'].pc = "fetch"
             /\ abortController' = nStarted']_vars

\* a send is in progress, its session reads, and a second session started
\* from a new component instance while the first was open
C3_Witness ==
  /\ sending
  /\ nStarted = 2
  /\ ses[2].pc = "read"
  /\ ses[1].pc \in {"fetch", "read", "rejected"}
  /\ Len(messages) >= 4

\* C4: once a cancel has taken effect on an open session, the placeholder
\* assistant message of that session is no longer in the message list.
C4_CancelDiscardsPlaceholder ==
  \A s \in Sessions : ses[s].err = "AbortError" => ~Placeholder(s)

\* C5: cancelling is idempotent.  No controller is ever aborted twice; an
\* abort goes to the installed controller only and uninstalls it, so with no
\* controller installed (after a cancel, after the session settled) a cancel
\* call aborts nothing; a cancel call changes no message, chat or session;
\* and the controller of a lone open session is installed, so the first
\* cancel call reaches it.
C5_CancelIdempotent ==
  [][/\ \A c \in Sessions : aborts'[c] <= 1
     /\ aborts' # aborts
          => /\ abortController # 0
             /\ aborts' = [aborts EXCEPT ![abortController] = 1]
             /\ abortController' # abortController
     /\ (aborts' # aborts /\ nStarted' = nStarted)
          => /\ messages' = messages
             /\ chats' = chats
             /\ ses' = ses
             /\ abortController' = 0
     /\ (nStarted' = 1 /\ ses'[1].pc \in {"fetch", "read"} /\ aborts'[1] = 0)
          => abortController' = 1]_vars

\* a session was cancelled while reading, the abort took effect, and the
\* controller is uninstalled: a further cancel call finds nothing to abort
C5_Witness ==
  /\ aborts[1] = 1
  /\ ses[1].err = "AbortError"
  /\ Len(ses[1].handled) >= 1
  /\ abortController = 0

\* the events a session handles in a step
NewEvents(s) ==
  SubSeq(ses'[s].handled, Len(ses[s].handled) + 1, Len(ses'[s].handled))

MutatorTypes ==
  {"token", "thinking_start", "thinking_token", "thinking_end",
   "file_generated", "done"}

StreamingPlaceholderIn(msgs, s) ==
  \E i \in 1..Len(msgs) :
    msgs[i].sid = s /\ msgs[i].role = "assistant" /\ msgs[i].isStreaming

Closed(msgs) ==
  msgs # <<>> /\ Last(msgs).role = "assistant" /\ ~Last(msgs).isStreaming

WithoutFile(msgs) ==
  [i \in 1..Len(msgs) |-> [msgs[i] EXCEPT !.generatedFile = <<>>]]

C7_FinalizedImmutable ==
  [][\A i \in 1..Len(messages) :
       (messages[i].role = "assistant" /\ ~messages[i].isStreaming)
         => (i <= Len(messages') /\ messages'[i] = messages[i])]_vars

\* C8: a session whose stream contains an error event ends as a failure: the
\* placeholder is gone, nothing was finalized and the promise of start rejects
\* with the error.
C8_ErrorEventFailsSession ==
  \A s \in Sessions :
    (HasType(ses[s].handled, {"error"}) /\ ses[s].pc \in {"resolved", "rejected"})
      => /\ ses[s].pc = "rejected"
         /\ ses[s].err = "Error"
         /\ ~Placeholder(s)
         /\ ses[s].nFinal = 0

\* C9: the finalize effects happen at most once per session, and never in a
\* session with an error event, a transport failure or a cancellation.
C9_OneTerminalOutcome ==
  \A s \in Sessions :
    /\ ses[s].nFinal <= 1
    /\ (HasType(ses[s].handled, {"error"}) \/ ses[s].err # "none")
         => ses[s].nFinal = 0

\* C10: the read loop stops at the first done or error event: no event after
\* one is handled.
C10_LoopStopsAtDoneOrError ==
  \A s \in Sessions :
    \A i \in 1..Len(ses[s].handled) :
      ses[s].handled[i].type \in {"done", "error"} => i = Len(ses[s].handled)

\* the payloads of the complete "data: " lines of text that JSON.parse rejects
RECURSIVE rawPayloads(_)
rawPayloads(lines) ==
  IF lines = <<>> THEN <<>>
  ELSE LET line == Head(lines)
           jsonStr == trim(Drop(line, 6))
       IN (IF startsWith(line, DataPrefix) /\ jsonStr # <<>>
              /\ JSONparse(jsonStr) = <<>>
           THEN <<jsonStr>> ELSE <<>>) \o rawPayloads(Tail(lines))

\* C11: a "data: " line whose payload is not JSON is handled as a token event
\* carrying the raw text, the text is appended to the answer, and the session
\* goes on.
C11_NonJsonLineIsToken ==
  \A s \in Sessions :
    LET raw == rawPayloads(linesOf(ses[s].delivered))
    IN raw # <<>> =>
         /\ ses[s].pc # "rejected"
         /\ \A i \in 1..Len(raw) :
              /\ \E j \in 1..Len(ses[s].handled) :
                   ses[s].handled[j] = [type |-> "token", data |-> raw[i]]
              /\ \E k \in 1..Len(messages) :
                   /\ messages[k].sid = s
                   /\ messages[k].role = "assistant"
                   /\ \E a \in 0..Len(messages[k].content) :
                        startsWith(Drop(messages[k].content, a), raw[i])

\* C12: cleanToken applied to its own result gives that result again.
C12_CleanTokenIdempotent ==
  (cleaned # <<>> /\ cleaned[1].by = "cleanToken" /\ cleaned[1].times = 2)
    => cleaned[1].text = cleaned[1].once

\* C13: cleanFinalResponse applied to its own result gives that result again.
C13_CleanFinalResponseIdempotent ==
  (cleaned # <<>> /\ cleaned[1].by = "cleanFinalResponse"
     /\ cleaned[1].times = 2)
    => cleaned[1].text = cleaned[1].once

Contains(text, part) ==
  \E a \in 0..Len(text) : startsWith(Drop(text, a), part)

\* C14: the answer text of a finalized message contains no stop marker.
C14_NoStopMarkerInFinalAnswer ==
  \A i \in 1..Len(messages) :
    (messages[i].role = "assistant" /\ ~messages[i].isStreaming)
      => \A k \in 1..Len(STOP_TOKENS) :
           ~Contains(messages[i].content, STOP_TOKENS[k])

AnswerTexts(msgs) == [i \in 1..Len(msgs) |-> msgs[i].content]

RECURSIVE PayloadsOf(_, _, _, _)
PayloadsOf(h, types, lo, hi) ==
  IF lo > hi THEN <<>>
  ELSE (IF h[lo].type \in types THEN h[lo].data ELSE <<>>)
         \o PayloadsOf(h, types, lo + 1, hi)

\* the same with every payload passed through cleanToken
RECURSIVE CleanedPayloadsOf(_, _, _, _)
CleanedPayloadsOf(h, types, lo, hi) ==
  IF lo > hi THEN <<>>
  ELSE (IF h[lo].type \in types THEN cleanToken(h[lo].data) ELSE <<>>)
         \o CleanedPayloadsOf(h, types, lo + 1, hi)

\* the place of the first thinking_end in h, 0 when there is none
ThinkingEndAt(h) ==
  LET ends == {i \in 1..Len(h) : h[i].type = "thinking_end"}
  IN IF ends = {} THEN 0 ELSE CHOOSE i \in ends : \A j \in ends : i <= j

ScenarioAEvents ==
  << [type |-> "thinking_start", data |-> <<>>],
     [type |-> "thinking_token", data |-> LetMeCheck],
     [type |-> "thinking_end", data |-> <<>>],
     [type |-> "token", data |-> Hello],
     [type |-> "token", data |-> World],
     [type |-> "done", data |-> <<>>] >>

\* C16 as claimed: when the call has resolved, the message is closed, its
\* reasoning text is the thinking_token payloads in order and its answer text
\* is the payloads of the tokens after thinking_end in order.
C16_TextsArePlainConcatenations ==
  ses[1].pc = "resolved" =>
    LET h == ses[1].handled
        e == ThinkingEndAt(h)
    IN /\ ~Last(messages).isStreaming
       /\ Last(messages).thinking = PayloadsOf(h, {"thinking_token"}, 1, Len(h))
       /\ Last(messages).content = PayloadsOf(h, {"token"}, e + 1, Len(h))

\* C16 as amended: scenario A ends with reasoning "Let me check", answer
\* "Hello world" and a closed message.  In general, for a stream of the form
\* thinking_start, thinking_token.., thinking_end, token.., done, the
\* reasoning text is the thinking_token payloads in order; the answer text is,
\* in part_009, cleanFinalResponse of the cleanToken'ed token payloads in
\* order (so blanks at its ends are gone), and in part_008 the plain
\* concatenation of the token payloads.
C16_ScenarioTexts ==
  ses[1].pc = "resolved" =>
    LET h == ses[1].handled
        e == ThinkingEndAt(h)
        m == Last(messages)
    IN /\ ~m.isStreaming
       /\ h = ScenarioAEvents =>
            (m.thinking = LetMeCheck /\ m.content = Hello \o World)
       /\ m.thinking = PayloadsOf(h, {"thinking_token"}, 1, Len(h))
       /\ variant = "v9" =>
            m.content = cleanFinalResponse(
                          CleanedPayloadsOf(h, {"token"}, e + 1, Len(h)))
       /\ variant = "v8" =>
            m.content = PayloadsOf(h, {"token"}, e + 1, Len(h))

\* scenario A was handled to its end and the call has resolved
C16_Witness ==
  /\ ses[1].pc = "resolved"
  /\ ses[1].handled = ScenarioAEvents
  /\ Last(messages).content = Hello \o World

\* C17: as long as a session has handled no thinking_start, and so when it
\* ends, its message has empty reasoning text and no reasoning in progress,
\* whatever other events it handled (thinking_token and thinking_end among
\* them) and however it ended.
C17_NoThinkingStartNoReasoning ==
  \A s \in Sessions :
    ~HasType(ses[s].handled, {"thinking_start"}) =>
      \A i \in 1..Len(messages) :
        (messages[i].sid = s /\ messages[i].role = "assistant")
          => (messages[i].thinking = <<>> /\ ~messages[i].thinkingInProgress)

\* a stream of thinking_token, thinking_end and token has ended
C17_Witness ==
  /\ ses[1].pc = "resolved"
  /\ Len(ses[1].handled) = 3
  /\ ses[1].handled[1].type = "thinking_token"
  /\ ses[1].handled[2].type = "thinking_end"
  /\ ses[1].handled[3].type = "token"
  /\ Placeholder(1)
  /\ Last(messages).content = <<"a">>

IgnoredTypes == {"heartbeat", "status", "file_ready"}

NotIgnored(events) == SelectSeq(events, LAMBDA e : e.type \notin IgnoredTypes)

\* C18: heartbeat, status and unrecognised events change nothing and do not
\* end the session: a chunk that holds some of them leaves the messages and
\* the reasoning state exactly as the chunk's other events alone would, and
\* the session reads on.
C18_IgnoredKindsChangeNothing ==
  [][\A s \in Sessions :
       (NewEvents(s) # <<>> /\ HasType(NewEvents(s), IgnoredTypes)) =>
         LET st == handleAll(variant, SvcState, NotIgnored(NewEvents(s)), now)
         IN /\ ses'[s].pc = "read"
            /\ messages' = st.messages
            /\ chats' = st.chats
            /\ isThinking' = st.isThinking
            /\ thinkingStartTime' = st.thinkingStartTime
            /\ currentThinking' = st.currentThinking]_vars

\* reasoning began, a status event came, and the thinking_token after it was
\* taken
C18_Witness ==
  /\ ses[1].pc = "read"
  /\ Len(ses[1].handled) = 3
  /\ ses[1].handled[1].type = "thinking_start"
  /\ ses[1].handled[2].type = "status"
  /\ ses[1].handled[3].type = "thinking_token"
  /\ isThinking
  /\ Last(messages).thinking = <<"a">>
  /\ Last(messages).thinkingInProgress

\* C19: when the response is not ok, the call rejects with an error whose
\* message carries the status, the placeholder is removed so that no
\* streaming message is left in the list, and the abort controller is
\* cleared.
C19_NotOkRejectsAndDiscards ==
  [][\A s \in Sessions :
       (ses[s].pc = "fetch" /\ ses'[s].status # 0) =>
         /\ ses'[s].pc = "rejected"
         /\ ses'[s].err = "Error"
         /\ ses'[s].message = <<"Stream failed: ", ses'[s].status>>
         /\ Len(messages') = Len(messages) - 1
         /\ \A i \in 1..Len(messages') : ~messages'[i].isStreaming
         /\ abortController' = 0]_vars

\* the response had status 500: only the user message is left
C19_Witness ==
  /\ ses[1].status = 500
  /\ ses[1].pc = "rejected"
  /\ Len(messages) = 1
  /\ messages[1].role = "user"
  /\ abortController = 0

\* C20: an array read from the messages signal before a step shows the same
\* messages after it: no mutator changes a message object that an observer
\* already holds.
C20_SnapshotIsolated ==
  [][heldAfter(variant, messages, messages') = messages]_vars

\* C21: while reasoning is in progress, a token event is taken as reasoning
\* content: its payload is appended to the reasoning text of the streaming
\* message, the answer text is unchanged and reasoning stays in progress.
C21_TokenWhileReasoningIsReasoning ==
  [][\A s \in Sessions :
       (/\ isThinking
        /\ Len(NewEvents(s)) = 1
        /\ NewEvents(s)[1].type = "token"
        /\ messages # <<>>
        /\ Last(messages).isStreaming)
         => /\ isThinking'
            /\ Len(messages') = Len(messages)
            /\ Last(messages').thinking
                 = Last(messages).thinking \o NewEvents(s)[1].data
            /\ Last(messages').content = Last(messages).content]_vars

\* C22: the reasoning duration a message carries is changed only by a
\* thinking_end event: no other event and no finalization replaces it.
C22_DurationKeptAfterThinkingEnd ==
  [][\A i \in 1..Len(messages) :
       (/\ messages[i].thinkingDuration # <<>>
        /\ i <= Len(messages')
        /\ \A s \in Sessions : ~HasType(NewEvents(s), {"thinking_end"}))
         => messages'[i].thinkingDuration = messages[i].thinkingDuration]_vars

\* the answer text, reasoning text and attached file of every message
TextsOf(msgs) ==
  [i \in 1..Len(msgs) |->
     <<msgs[i].content, msgs[i].thinking, msgs[i].generatedFile>>]

\* C23: once a session has been cancelled none of its stream events is
\* applied any more: it handles no further event, does not finalize, and its
\* remaining step leaves the texts and files of all messages as they were.
C23_NoEventAfterCancel ==
  [][\A s \in Sessions :
       aborts[s] > 0
         => /\ ses'[s].handled = ses[s].handled
            /\ ses'[s].nFinal = ses[s].nFinal
            /\ (ses'[s] # ses[s]
                  => TextsOf(messages') = TextsOf(messages))]_vars

\* a session that applied a token and was then cancelled has been rejected
C23_Witness ==
  \E s \in Sessions :
    /\ aborts[s] > 0
    /\ ses[s].err = "AbortError"
    /\ HasType(ses[s].handled, {"token"})

\* C24: at end of stream the text held in the line buffer, which no newline
\* ended, is dropped: the step handles no event and the messages are those
\* that finalization alone produces, also when the text is a complete record.
C24_UnterminatedTailDiscarded ==
  [][\A s \in Sessions :
       (/\ ses[s].pc = "read"
        /\ ses'[s].pc = "resolved"
        /\ ses[s].buffer # <<>>)
         => /\ ses'[s].handled = ses[s].handled
            /\ messages' = finalizeMessage(variant, SvcState, now).messages]_vars

\* the stream ended with a complete token record in the buffer and the answer
\* holds the one token that a newline followed
C24_Witness ==
  /\ ses[1].pc = "resolved"
  /\ lineEvent(ses[1].buffer) = <<[type |-> "token", data |-> <<"a">>]>>
  /\ ses[1].delivered = StreamTail
  /\ Last(messages).content = <<"a">>

\* C25: while the session started last is suspended at its fetch or read and
\* has not been cancelled, its controller is the one installed: isStreaming
\* is true and cancelStream would abort this session's transport.
C25_ActiveSessionHoldsController ==
  \A s \in Sessions :
    (s = nStarted /\ Suspended(s) /\ aborts[s] = 0) => abortController = s

\* the session started last, suspended at its fetch or read and not cancelled
Active(s) == s = nStarted /\ Suspended(s) /\ aborts[s] = 0

\* C26: while a session stays active the reasoning flag changes only in a
\* step in which that session handles a thinking_start or thinking_end of
\* its own; the end of another session does not reset it.
C26_ThinkingFlagOwnEventsOnly ==
  [][\A s \in Sessions :
       (Active(s) /\ Active(s)' /\ isThinking' # isThinking)
         => HasType(NewEvents(s), {"thinking_start", "thinking_end"})]_vars

\* C27: at most one message of the list is streaming, and a streaming
\* message is the last of the list.
C27_OneStreamingMessageLast ==
  \A i \in 1..Len(messages) : messages[i].isStreaming => i = Len(messages)

\* C28: a message that is not streaming has no reasoning in progress.
C28_FinishedMessageNotThinking ==
  \A i \in 1..Len(messages) :
    ~messages[i].isStreaming => ~messages[i].thinkingInProgress

\* C29: a step in which a session handles token, thinking or file_generated
\* events changes no message other than the placeholder that session created:
\* every other message of the list is there afterwards, unchanged.
C29_EventsTouchOwnPlaceholderOnly ==
  [][\A s \in Sessions :
       (/\ NewEvents(s) # <<>>
        /\ \A k \in 1..Len(NewEvents(s)) :
             NewEvents(s)[k].type \in
               {"token", "thinking_start", "thinking_token", "thinking_end",
                "file_generated"})
         => \A i \in 1..Len(messages) :
              ~(messages[i].sid = s /\ messages[i].role = "assistant")
                => /\ i <= Len(messages')
                   /\ messages'[i] = messages[i]]_vars

\* the promise of the call has resolved or rejected
Settled(s) == ses[s].pc \in {"resolved", "rejected"}

\* C30: every started session settles in the end; in the step that settles
\* the session started last no controller is left installed (isStreaming is
\* false) and the reasoning flag is false, and they stay so while no session
\* is open.
C30_EverySessionSettles ==
  /\ \A s \in Sessions : Suspended(s) ~> Settled(s)
  /\ [][\A s \in Sessions :
          (Suspended(s) /\ Settled(s)' /\ s = nStarted)
            => (abortController' = 0 /\ ~isThinking')]_vars
  /\ [](\A s \in Sessions :
          (/\ Settled(s)
           /\ s = nStarted
           /\ \A o \in Sessions : ~Suspended(o))
            => (abortController = 0 /\ ~isThinking))

\* a lone session whose reasoning had begun has failed and is rejected
C30_Witness ==
  /\ nStarted = 1
  /\ ses[1].pc = "rejected"
  /\ ses[1].err = "Error"
  /\ HasType(ses[1].handled, {"thinking_start"})

====
